---- MODULE Spec2Model ----
(***************************************************************************)
(* Model of the background refresh pipeline of github-repo-searcher:       *)
(* load_repositories_with_background_refresh and spawn_background_task     *)
(* (src/src/repository.rs), the on-disk cache (src/src/cache.rs), the      *)
(* bounded tokio mpsc channel between them and the picker that drains it.  *)
(***************************************************************************)
EXTENDS Integers, Sequences, FiniteSets, TLC

\* ------------------------------------------------------------------ bounds
\* Largest batch a source fetch returns.
MaxBatch == 3
\* Largest capacity of the bounded channel handed to the orchestrator.
MaxCap == 2
\* Number of program runs (each run is one call and one refresh cycle).
MaxRuns == 2
\* Number of items of the corpus the picker is started on (more than a screenful).
MaxItems == 12
\* Longest query typed into the picker.
MaxQuery == 2
\* Longest query handed to the filter when the filter is checked on its own.
MaxFilterQuery == 4

\* ------------------------------------------------------- program constants
\* cache.rs: const CACHE_EXPIRY = Duration::from_secs(30 * 60)
CACHE_EXPIRY == 1800

\* ------------------------------------------------------------- input sets
\* Lengths of the batches GitHub's fetcher returns: no repository, or a full batch.
GitHubBatchLens == {0, MaxBatch}
\* Lengths of the batches GitLab's fetcher returns: a full batch.
GitLabBatchLens == {MaxBatch}
\* Seconds between two runs of the program: both sides of the expiry boundary.
RunGaps == {CACHE_EXPIRY, CACHE_EXPIRY + 1}
\* Capacities of the channel: the smallest and the largest.
Capacities == {1, MaxCap}

GitHubUser == "gh_user"
GitLabUser == "gl_user"

\* --------------------------------------------------------------- cache.rs
\* Option<SourceData>::None, as a record of the same shape as Some(..).
NoSource == [present |-> FALSE, timestamp |-> 0, username |-> "", repositories |-> <<>>]

\* CacheData::new()
CacheData_new == [github |-> NoSource, gitlab |-> NoSource]

\* SourceCache::new(username) with the repositories: Some(SourceData {..}).
SourceData(username, repositories, t) ==
    [present |-> TRUE, timestamp |-> t, username |-> username, repositories |-> repositories]

\* Mutant of SourceCache_is_expired: the window taken as 30 seconds, not 30 minutes.
SourceCache_is_expired_seconds(cache_info, t) == t - cache_info.timestamp > 30

\* Mutant of SourceCache_is_expired: the boundary compared with >=.
SourceCache_is_expired_inclusive(cache_info, t) == t - cache_info.timestamp >= CACHE_EXPIRY

\* SourceCache::is_expired at time t. now and timestamp are u64: when the
\* timestamp is later than now the subtraction overflows, and a release build
\* wraps it to 2^64 - (timestamp - now), a number above every expiry window
\* (and beyond the integers of the model checker, so the comparison is
\* written out); what a debug build does is SourceCache_is_expired_overflows.
SourceCache_is_expired(cache_info, t) ==
    IF t >= cache_info.timestamp
    THEN t - cache_info.timestamp > CACHE_EXPIRY
    ELSE TRUE

\* now - self.timestamp overflows: a debug build panics here.
SourceCache_is_expired_overflows(cache_info, t) == t < cache_info.timestamp

\* Mutant of CacheData_is_expired: only the GitHub snapshot is looked at.
CacheData_is_expired_github_only(c, t) ==
    IF c.github.present /\ SourceCache_is_expired(c.github, t) THEN TRUE
    ELSE ~c.github.present /\ ~c.gitlab.present

\* Mutant of CacheData_is_expired: expired only when every present snapshot is.
CacheData_is_expired_all(c, t) ==
    IF ~c.github.present /\ ~c.gitlab.present THEN TRUE
    ELSE /\ c.github.present => SourceCache_is_expired(c.github, t)
         /\ c.gitlab.present => SourceCache_is_expired(c.gitlab, t)

\* Mutant of CacheData_is_expired: a cache with no source counts as fresh.
CacheData_is_expired_empty_fresh(c, t) ==
    IF c.github.present /\ SourceCache_is_expired(c.github, t) THEN TRUE
    ELSE IF c.gitlab.present /\ SourceCache_is_expired(c.gitlab, t) THEN TRUE
    ELSE FALSE

\* CacheData::is_expired at time t.
CacheData_is_expired(c, t) ==
    IF c.github.present /\ SourceCache_is_expired(c.github, t) THEN TRUE
    ELSE IF c.gitlab.present /\ SourceCache_is_expired(c.gitlab, t) THEN TRUE
    ELSE ~c.github.present /\ ~c.gitlab.present

\* CacheData::is_expired meets an overflowing subtraction: in the GitHub
\* snapshot, or in the GitLab one when the GitHub one did not end the test.
CacheData_is_expired_overflows(c, t) ==
    \/ c.github.present /\ SourceCache_is_expired_overflows(c.github, t)
    \/ /\ ~(c.github.present /\ SourceCache_is_expired(c.github, t))
       /\ c.gitlab.present /\ SourceCache_is_expired_overflows(c.gitlab, t)

update_github(c, username, repositories, t) ==
    [c EXCEPT !.github = SourceData(username, repositories, t)]

\* Mutant of update_gitlab: the snapshot is stored in the GitHub slot.
update_gitlab_in_github_slot(c, username, repositories, t) ==
    [c EXCEPT !.github = SourceData(username, repositories, t)]

update_gitlab(c, username, repositories, t) ==
    [c EXCEPT !.gitlab = SourceData(username, repositories, t)]

\* Mutant of get_all_repositories: GitLab's repositories come first.
get_all_repositories_gitlab_first(c) ==
    (IF c.gitlab.present THEN c.gitlab.repositories ELSE <<>>)
        \o (IF c.github.present THEN c.github.repositories ELSE <<>>)

get_all_repositories(c) ==
    (IF c.github.present THEN c.github.repositories ELSE <<>>)
        \o (IF c.gitlab.present THEN c.gitlab.repositories ELSE <<>>)

\* github::Repository tuples as the fetcher returns them: the i-th repository of a batch.
FetchedRepo(i, owner) == [name |-> i, owner |-> owner]

github_repo_to_repo_data(repo) ==
    [name |-> repo.name, owner |-> repo.owner, source |-> "GitHub"]

gitlab_repo_to_repo_data(repo) ==
    [name |-> repo.name, owner |-> repo.owner, source |-> "GitLab"]

\* The cache file: absent, unreadable as JSON, or the JSON of a CacheData.
AbsentFile == [state |-> "absent", data |-> CacheData_new]
MalformedFile == [state |-> "malformed", data |-> CacheData_new]

\* serde_json::to_string_pretty of a CacheData, as the file then holds it.
to_json(c) == [state |-> "json", data |-> c]

\* Mutant of load_cache: an unparsable file yields an empty CacheData.
load_cache_default_on_error(f) ==
    IF f.state = "absent" THEN [some |-> FALSE, data |-> CacheData_new]
    ELSE [some |-> TRUE, data |-> f.data]

\* load_cache(): None for an absent or unparsable file, else Some(cache_data).
load_cache(f) ==
    IF f.state = "json" THEN [some |-> TRUE, data |-> f.data]
    ELSE [some |-> FALSE, data |-> CacheData_new]

\* -------------------------------------------------------------- filter.rs
\* Mutant of Whitespace: only the space is trimmed.
Whitespace_space_only == {" "}

\* Strings are sequences of characters; a character is a one-letter string.
\* char::is_whitespace, for the characters a key press can put in the query.
Whitespace == {" ", "\t"}

\* char::to_lowercase, for the letters in use.
to_lowercase_char(c) ==
    CASE c = "A" -> "a"
      [] c = "B" -> "b"
      [] OTHER -> c

\* str::to_lowercase
to_lowercase(s) == [i \in 1..Len(s) |-> to_lowercase_char(s[i])]

RECURSIVE trim_start(_)
trim_start(s) ==
    IF s # <<>> /\ Head(s) \in Whitespace THEN trim_start(Tail(s)) ELSE s

RECURSIVE trim_end(_)
trim_end(s) ==
    IF s # <<>> /\ s[Len(s)] \in Whitespace THEN trim_end(SubSeq(s, 1, Len(s) - 1)) ELSE s

\* str::trim
trim(s) == trim_end(trim_start(s))

\* str::split(sep): the pieces between the separators, empty pieces included.
RECURSIVE split(_, _)
split(s, sep) ==
    IF \A i \in DOMAIN s : s[i] # sep THEN <<s>>
    ELSE LET k == CHOOSE i \in DOMAIN s : s[i] = sep /\ \A j \in 1..(i - 1) : s[j] # sep
         IN <<SubSeq(s, 1, k - 1)>> \o split(SubSeq(s, k + 1, Len(s)), sep)

\* str::starts_with(char)
starts_with(s, c) == s # <<>> /\ s[1] = c

\* str::contains(&str)
contains(haystack, needle) ==
    \E i \in 0..(Len(haystack) - Len(needle)) :
        SubSeq(haystack, i + 1, i + Len(needle)) = needle

\* Mutant of query_parts: the query is not lower-cased.
query_parts_case_sensitive(query) ==
    LET parts == SelectSeq(split(trim(query), " "), LAMBDA part : part # <<>>)
    IN SelectSeq(parts, LAMBDA part : starts_with(part, "-"))
          \o SelectSeq(parts, LAMBDA part : ~starts_with(part, "-"))

\* The non-empty terms of the trimmed, lower-cased query, after the stable
\* sort_by that puts the terms starting with '-' first (filter.rs 17-37).
query_parts(query) ==
    LET parts == SelectSeq(split(to_lowercase(trim(query)), " "), LAMBDA part : part # <<>>)
    IN SelectSeq(parts, LAMBDA part : starts_with(part, "-"))
          \o SelectSeq(parts, LAMBDA part : ~starts_with(part, "-"))

\* Mutant of pass: an item that holds every inclusion term passes at once.
pass_inclusion_wins(mapped, parts) ==
    LET exclusion(part) == Len(part) >= 2 /\ starts_with(part, "-")
        inclusions == SelectSeq(parts, LAMBDA part : ~exclusion(part))
    IN IF inclusions # <<>> /\ \A k \in DOMAIN inclusions : contains(mapped, inclusions[k])
       THEN TRUE
       ELSE \A k \in DOMAIN parts :
               IF exclusion(parts[k]) THEN ~contains(mapped, Tail(parts[k]))
               ELSE contains(mapped, parts[k])

\* Mutant of pass: the length of the part is not looked at.
pass_no_length_check(mapped, parts) ==
    \A k \in DOMAIN parts :
        LET query_part == parts[k]
        IN IF starts_with(query_part, "-")
           THEN ~contains(mapped, Tail(query_part))
           ELSE contains(mapped, query_part)

\* Mutant of pass: a part excludes only from three characters on.
pass_long_exclusions(mapped, parts) ==
    \A k \in DOMAIN parts :
        LET query_part == parts[k]
        IN IF Len(query_part) >= 3 /\ starts_with(query_part, "-")
           THEN ~contains(mapped, Tail(query_part))
           ELSE contains(mapped, query_part)

\* Mutant of pass: the loop is left after its first part.
pass_first_part_only(mapped, parts) ==
    \A k \in DOMAIN parts :
        LET query_part == parts[k]
        IN k = 1 =>
              IF Len(query_part) >= 2 /\ starts_with(query_part, "-")
              THEN ~contains(mapped, Tail(query_part))
              ELSE contains(mapped, query_part)

\* Mutant of pass: an item passes as soon as one part is satisfied.
pass_any_part(mapped, parts) ==
    \E k \in DOMAIN parts :
        LET query_part == parts[k]
        IN IF Len(query_part) >= 2 /\ starts_with(query_part, "-")
           THEN ~contains(mapped, Tail(query_part))
           ELSE contains(mapped, query_part)

\* The loop over the query parts for one lower-cased item (filter.rs 43-54).
pass(mapped, parts) ==
    \A k \in DOMAIN parts :
        LET query_part == parts[k]
        IN IF Len(query_part) >= 2 /\ starts_with(query_part, "-")
           THEN ~contains(mapped, Tail(query_part))
           ELSE contains(mapped, query_part)

\* Mutant of filter_human: passing items are put at the front of the result.
filter_human_reversed(items, query) ==
    IF items = <<>> THEN <<>>
    ELSE IF trim(query) = <<>> THEN items
    ELSE LET parts == query_parts(query)
             kept == SelectSeq(items, LAMBDA item : pass(to_lowercase(item), parts))
         IN [i \in 1..Len(kept) |-> kept[Len(kept) + 1 - i]]

\* filter::filter_human(items, query, |s| s.clone())
filter_human(items, query) ==
    IF items = <<>> THEN <<>>
    ELSE IF trim(query) = <<>> THEN items
    ELSE LET parts == query_parts(query)
         IN SelectSeq(items, LAMBDA item : pass(to_lowercase(item), parts))

\* -------------------------------------------------------- fuzzy_finder.rs
\* let max_display = 10; // Number of items to display at once
max_display == 10

\* termion::terminal_size().unwrap_or((80, 24)): the rows when the size is unknown.
DefaultHeight == 24

\* ... and the columns.
DefaultWidth == 80

\* FuzzyFinder::new(items)
FuzzyFinder_new(items) ==
    [items |-> items, filtered_items |-> items, query |-> <<>>, cursor_pos |-> 0,
     selected_index |-> 0, max_display |-> max_display, scroll_offset |-> 0]

\* Mutant of update_filter: the selection is not brought back into the list.
update_filter_no_clamp(ff) ==
    LET filtered == filter_human(ff.items, ff.query)
        selected == ff.selected_index
        scroll == IF selected < ff.scroll_offset THEN selected
                  ELSE IF selected >= ff.scroll_offset + ff.max_display
                       THEN selected - ff.max_display + 1
                       ELSE ff.scroll_offset
    IN [ff EXCEPT !.filtered_items = filtered, !.selected_index = selected,
                  !.scroll_offset = scroll]

\* Mutant of update_filter: the filtered list is left as it was.
update_filter_keeps_list(ff) ==
    LET filtered == ff.filtered_items
        selected == IF ff.selected_index >= Len(filtered)
                    THEN (IF filtered = <<>> THEN 0 ELSE Len(filtered) - 1)
                    ELSE ff.selected_index
        scroll == IF selected < ff.scroll_offset THEN selected
                  ELSE IF selected >= ff.scroll_offset + ff.max_display
                       THEN selected - ff.max_display + 1
                       ELSE ff.scroll_offset
    IN [ff EXCEPT !.filtered_items = filtered, !.selected_index = selected,
                  !.scroll_offset = scroll]

\* Mutant of update_filter: the filtered list is the whole corpus, as in new().
update_filter_all_items(ff) ==
    LET filtered == ff.items
        selected == IF ff.selected_index >= Len(filtered)
                    THEN (IF filtered = <<>> THEN 0 ELSE Len(filtered) - 1)
                    ELSE ff.selected_index
        scroll == IF selected < ff.scroll_offset THEN selected
                  ELSE IF selected >= ff.scroll_offset + ff.max_display
                       THEN selected - ff.max_display + 1
                       ELSE ff.scroll_offset
    IN [ff EXCEPT !.filtered_items = filtered, !.selected_index = selected,
                  !.scroll_offset = scroll]

\* FuzzyFinder::update_filter
update_filter(ff) ==
    LET filtered == filter_human(ff.items, ff.query)
        selected == IF ff.selected_index >= Len(filtered)
                    THEN (IF filtered = <<>> THEN 0 ELSE Len(filtered) - 1)
                    ELSE ff.selected_index
        scroll == IF selected < ff.scroll_offset THEN selected
                  ELSE IF selected >= ff.scroll_offset + ff.max_display
                       THEN selected - ff.max_display + 1
                       ELSE ff.scroll_offset
    IN [ff EXCEPT !.filtered_items = filtered, !.selected_index = selected,
                  !.scroll_offset = scroll]

\* FuzzyFinder::move_cursor_up
move_cursor_up(ff) ==
    IF ff.filtered_items # <<>> /\ ff.selected_index > 0
    THEN LET selected == ff.selected_index - 1
         IN [ff EXCEPT !.selected_index = selected,
                       !.scroll_offset = IF selected < ff.scroll_offset
                                         THEN selected ELSE ff.scroll_offset]
    ELSE ff

\* Mutant of move_cursor_down: Down on the last line wraps to the first.
move_cursor_down_wraps(ff) ==
    IF ff.filtered_items = <<>> THEN ff
    ELSE IF ff.selected_index < Len(ff.filtered_items) - 1
    THEN LET selected == ff.selected_index + 1
         IN [ff EXCEPT !.selected_index = selected,
                       !.scroll_offset = IF selected >= ff.scroll_offset + ff.max_display
                                         THEN selected - ff.max_display + 1
                                         ELSE ff.scroll_offset]
    ELSE [ff EXCEPT !.selected_index = 0, !.scroll_offset = 0]

\* FuzzyFinder::move_cursor_down
move_cursor_down(ff) ==
    IF ff.filtered_items # <<>> /\ ff.selected_index < Len(ff.filtered_items) - 1
    THEN LET selected == ff.selected_index + 1
         IN [ff EXCEPT !.selected_index = selected,
                       !.scroll_offset = IF selected >= ff.scroll_offset + ff.max_display
                                         THEN selected - ff.max_display + 1
                                         ELSE ff.scroll_offset]
    ELSE ff

Min(a, b) == IF a <= b THEN a ELSE b

\* FuzzyFinder::render on a terminal of height rows: the lines left for the
\* items and the half-open range of filtered_items it draws (lines 108-118).
available_lines(height) == height - 3
end_idx(ff, height) ==
    Min(ff.scroll_offset + Min(available_lines(height), Len(ff.filtered_items)),
        Len(ff.filtered_items))
drawn(ff, height) == {i \in 0..(Len(ff.filtered_items) - 1) :
                         ff.scroll_offset <= i /\ i < end_idx(ff, height)}

\* ------------------------------------------------------------ formatter.rs
\* A string is a sequence of characters; an emoji is written as its code point.
\* The tests of get_category_emoji in their order: the words looked for and
\* the emoji returned when one of them occurs.
Categories ==
    <<
      \* web / frontend
      [emoji |-> <<"U+1F310">>,
       words |->
         {<<"w", "e", "b">>, <<"f", "r", "o", "n", "t", "e", "n", "d">>,
          <<"h", "t", "m", "l">>, <<"c", "s", "s">>,
          <<"j", "a", "v", "a", "s", "c", "r", "i", "p", "t">>,
          <<"r", "e", "a", "c", "t">>, <<"v", "u", "e">>,
          <<"a", "n", "g", "u", "l", "a", "r">>}],
      \* backend
      [emoji |-> <<"U+1F5A5", "U+FE0F">>,
       words |->
         {<<"b", "a", "c", "k", "e", "n", "d">>, <<"s", "e", "r", "v", "e", "r">>,
          <<"a", "p", "i">>, <<"d", "a", "t", "a", "b", "a", "s", "e">>, <<"d", "b">>}],
      \* mobile
      [emoji |-> <<"U+1F4F1">>,
       words |->
         {<<"m", "o", "b", "i", "l", "e">>, <<"a", "n", "d", "r", "o", "i", "d">>,
          <<"i", "o", "s">>, <<"a", "p", "p">>, <<"f", "l", "u", "t", "t", "e", "r">>,
          <<"s", "w", "i", "f", "t">>}],
      \* data science
      [emoji |-> <<"U+1F4CA">>,
       words |->
         {<<"d", "a", "t", "a">>,
          <<"m", "a", "c", "h", "i", "n", "e", " ", "l", "e", "a", "r", "n", "i", "n", "g">>,
          <<"m", "l">>, <<"a", "i">>, <<"a", "n", "a", "l", "y", "t", "i", "c", "s">>,
          <<"t", "e", "n", "s", "o", "r", "f", "l", "o", "w">>,
          <<"p", "y", "t", "o", "r", "c", "h">>}],
      \* testing
      [emoji |-> <<"U+1F9EA">>,
       words |->
         {<<"t", "e", "s", "t">>, <<"s", "p", "e", "c">>, <<"q", "a">>}],
      \* tools
      [emoji |-> <<"U+1F527">>,
       words |->
         {<<"t", "o", "o", "l">>, <<"u", "t", "i", "l">>, <<"c", "l", "i">>,
          <<"c", "o", "m", "m", "a", "n", "d">>, <<"s", "c", "r", "i", "p", "t">>}],
      \* documentation
      [emoji |-> <<"U+1F4DA">>,
       words |->
         {<<"d", "o", "c">>, <<"t", "u", "t", "o", "r", "i", "a", "l">>,
          <<"l", "e", "a", "r", "n">>, <<"g", "u", "i", "d", "e">>,
          <<"b", "o", "o", "k">>}],
      \* games
      [emoji |-> <<"U+1F3AE">>,
       words |->
         {<<"g", "a", "m", "e">>, <<"u", "n", "i", "t", "y">>,
          <<"u", "n", "r", "e", "a", "l">>, <<"g", "o", "d", "o", "t">>}]
    >>

\* formatter::get_category_emoji: the emoji of the first test that finds one
\* of its words in the lower-cased "name description", or nothing.
get_category_emoji(name, description) ==
    LET text == to_lowercase(name \o <<" ">> \o description)
        found == {i \in DOMAIN Categories :
                     \E word \in Categories[i].words : contains(text, word)}
    IN IF found = {} THEN <<>>
       ELSE Categories[CHOOSE i \in found : \A j \in found : i <= j].emoji

\* formatter::format_repo_name: the name, " U+1F374" (fork and knife) on a
\* fork, " U+1F512" (lock) on a private repository.
format_repo_name(name, is_fork, is_private) ==
    name \o (IF is_fork THEN <<" ", "U+1F374">> ELSE <<>>)
         \o (IF is_private THEN <<" ", "U+1F512">> ELSE <<>>)

\* formatter::format_repository
format_repository(name, description, is_fork, is_private) ==
    LET formatted_name == format_repo_name(name, is_fork, is_private)
        category_emoji == get_category_emoji(name, description)
    IN IF description = <<>>
       THEN (IF category_emoji # <<>>
             THEN formatted_name \o <<" ">> \o category_emoji
             ELSE formatted_name)
       ELSE formatted_name \o <<" ", "(">> \o description \o <<")", " ">> \o category_emoji

\* str::split_once(" ("): the text before the first " (", or the whole line.
before_paren(selection) ==
    IF contains(selection, <<" ", "(">>)
    THEN LET k == CHOOSE i \in 1..(Len(selection) - 1) :
                     /\ SubSeq(selection, i, i + 1) = <<" ", "(">>
                     /\ \A j \in 1..(i - 1) : SubSeq(selection, j, j + 1) # <<" ", "(">>
         IN SubSeq(selection, 1, k - 1)
    ELSE selection

\* github::extract_repo_info and gitlab::extract_repo_info: the repository
\* name and the browser URL built from it.
extract_repo_info(host, selection, username) ==
    [repo_name |-> before_paren(selection),
     browser_url |-> <<"https://", host, "/">> \o username \o <<"/">> \o before_paren(selection)]

\* repository::process_repository_selection: the repository information it
\* opens the browser on.
process_repository_selection(selection, gh_username, gl_username) ==
    IF contains(selection, <<" ", "[", "G", "L", "]">>)
    THEN extract_repo_info("gitlab.com", selection, gl_username)
    ELSE extract_repo_info("github.com", selection, gh_username)

\* The differences render computes in usize, as integers: a negative value
\* is a subtraction that overflows (a panic in a debug build, a wrap-around to
\* a huge count in a release build).
\* The number of decimal digits of n, as format!("{}", n) writes them.
Digits(n) == IF n < 10 THEN 1 ELSE IF n < 100 THEN 2 ELSE 3

\* let available_width = width as usize - prefix_len - 5 (line 123)
item_available_width(width) == width - 2 - 5

\* let empty_lines = height as usize - 3 - (end_idx - self.scroll_offset) (line 162)
empty_lines(ff, height) == height - 3 - (end_idx(ff, height) - ff.scroll_offset)

\* format!("{}/{}", filtered_items.len(), items.len()).len() (line 171)
count_text_len(ff) == Digits(Len(ff.filtered_items)) + 1 + Digits(Len(ff.items))

\* "─".repeat(width as usize - count_text.len() - 1) (line 180)
rule_len(ff, width) == width - count_text_len(ff) - 1

\* let available_width = width as usize - 2 (lines 191 and 203)
query_available_width(width) == width - 2

\* Every subtraction a render of ff makes on a terminal of width columns and
\* height rows; the width left for an item is computed once per item drawn.
render_sizes(ff, width, height) ==
    {available_lines(height), empty_lines(ff, height), rule_len(ff, width),
     query_available_width(width)}
    \cup {item_available_width(width) : i \in drawn(ff, height)}

\* ---------------------------------------------------------- RepoUpdateMessage
Msg(type, text, count, repos, gh, gl) ==
    [type |-> type, text |-> text, count |-> count, repos |-> repos,
     github_username |-> gh, gitlab_username |-> gl]

Status(text) == Msg("Status", text, 0, <<>>, "", "")
StatusN(text, n) == Msg("Status", text, n, <<>>, "", "")
Error(text) == Msg("Error", text, 0, <<>>, "", "")
NewRepos(repos, gh, gl) == Msg("NewRepos", "", 0, repos, gh, gl)
LoadingComplete == Msg("LoadingComplete", "", 0, <<>>, "", "")

\* ------------------------------------------------------------------ state
VARIABLES
    now,              \* SystemTime::now(), seconds since the epoch
    file,             \* the cache file .repo-cache.json
    run,              \* number of the current program run
    cap,              \* capacity of the mpsc channel of this run
    args,             \* cli::AppArgs of this run
    fgpc,             \* position of load_repositories_with_background_refresh
    outcome,          \* branch its cache check took
    loaded,           \* what load_cache() returned to it
    cache_loaded,     \* its local cache_loaded
    all_repos,        \* its out-parameter all_repos
    github_username,  \* its out-parameter github_username
    gitlab_username,  \* its out-parameter gitlab_username
    spawned,          \* number of background threads spawned by this call
    bgpc,             \* position of the background thread
    bg,               \* locals of the background thread
    ghRes,            \* what github::fetch_repos returned in this cycle
    glRes,            \* what gitlab::fetch_repos returned in this cycle
    saves,            \* number of save_cache calls of this cycle
    saveRes,          \* result of save_cache in this cycle
    sent,             \* every message enqueued on the channel, in order
    nrecv,            \* number of messages the picker has taken
    picker            \* the picker: its FuzzyFinder, overlay texts and place in run()

vars == <<now, file, run, cap, args, fgpc, outcome, loaded, cache_loaded, all_repos,
          github_username, gitlab_username, spawned, bgpc, bg, ghRes, glRes,
          saves, saveRes, sent, nrecv, picker>>

fgVars == <<fgpc, outcome, loaded, cache_loaded, all_repos, github_username,
            gitlab_username, spawned>>
bgVars == <<bgpc, bg, ghRes, glRes, saves, saveRes>>
envVars == <<run, cap, args>>

\* The messages waiting in the channel.
chan == SubSeq(sent, nrecv + 1, Len(sent))

\* tokio::sync::mpsc::Sender::send(..).await completes once the channel has room.
HasRoom == Len(chan) < cap

NoResult == [tag |-> "none", username |-> "", repos |-> <<>>]
BgLocals == [cache_data |-> CacheData_new, all_repos |-> <<>>,
             github_username |-> "", gitlab_username |-> ""]

\* Option<String>, as run() returns it.
NoItem == [some |-> FALSE, item |-> <<>>]
SomeItem(item) == [some |-> TRUE, item |-> item]

\* The selection, scroll offset and length of the filtered list of a picker.
View(p) == [selected_index |-> p.selected_index, scroll_offset |-> p.scroll_offset,
            filtered_len |-> Len(p.filtered_items)]

\* The terminal as the program found it.
OriginalTerminal == [screen |-> "main", cursor |-> "shown", raw_mode |-> FALSE]

\* stdout().into_raw_mode().unwrap().into_alternate_screen().unwrap(), then
\* cursor::Hide (run(), lines 222-230).
setup_terminal(t) == [t EXCEPT !.screen = "alternate", !.cursor = "hidden", !.raw_mode = TRUE]

\* cleanup_terminal: writes ToMainScreen and cursor::Show.
cleanup_terminal(t) == [t EXCEPT !.screen = "main", !.cursor = "shown"]

\* The local screen goes out of scope when run() returns: AlternateScreen's
\* drop writes ToMainScreen, RawTerminal's drop puts the saved termios back.
drop_screen(t) == [t EXCEPT !.screen = "main", !.raw_mode = FALSE]

\* std::process::exit(0): the process ends and no destructor is run.
process_exit(t) == t

\* The picker when run() has drawn it for the first time on a terminal of
\* height rows: the FuzzyFinder, the overlay texts, and where run() is: the
\* key it handled last, the view it had before that key, the rows its last
\* render read, the state of the terminal, and how and with what it has left
\* its loop.
PickerStart(items, height) ==
    FuzzyFinder_new(items) @@
        [status_message |-> "", error_message |-> "",
         key |-> "none", before |-> View(FuzzyFinder_new(items)), height |-> height,
         width |-> DefaultWidth,
         terminal |-> setup_terminal(OriginalTerminal),
         exit |-> "none", result |-> NoItem]

PickerNew == PickerStart(<<>>, DefaultHeight)

\* AppArgs as cli::parse_args lets them through: at least one token.
ArgSets == {a \in [github_token : BOOLEAN, gitlab_token : BOOLEAN, force_download : BOOLEAN] :
                a.github_token \/ a.gitlab_token}

\* A fetched batch of n repositories.
Batch(n, owner) == [i \in 1..n |-> FetchedRepo(i, owner)]

\* The orchestrator before its call.
CallNotStarted ==
    /\ fgpc = "start"
    /\ outcome = "none"
    /\ loaded = load_cache(AbsentFile)
    /\ cache_loaded = FALSE
    /\ all_repos = <<>>
    /\ github_username = ""
    /\ gitlab_username = ""
    /\ spawned = 0
    /\ bgpc = "idle"
    /\ bg = BgLocals
    /\ ghRes = NoResult
    /\ glRes = NoResult
    /\ saves = 0
    /\ saveRes = "none"
    /\ sent = <<>>
    /\ nrecv = 0

StartOfCall == CallNotStarted /\ picker = PickerNew

Init ==
    /\ now = 2 * CACHE_EXPIRY
    /\ file = AbsentFile
    /\ run = 1
    /\ cap \in Capacities
    /\ args \in ArgSets
    /\ StartOfCall

\* ------------------------------- load_repositories_with_background_refresh
\* The branch the cache check takes (repository.rs 101-135): force_download
\* skips the cache file, load_cache() None is a miss, is_expired() an expiry.
\* Mutant of use_cache: the cache is consulted even under --force-download.
use_cache_always(a) == TRUE

\* let use_cache = !args.force_download;
use_cache(a) == ~a.force_download

cache_outcome(a, f, t) ==
    IF ~use_cache(a) THEN "forced"
    ELSE IF ~load_cache(f).some THEN "miss"
    ELSE IF CacheData_is_expired(load_cache(f).data, t) THEN "expired"
    ELSE "hit"

\* The branches the cache check can take: the one above, and a panic in
\* is_expired when a subtraction overflows in a build that checks overflow.
cache_outcomes(a, f, t) ==
    {cache_outcome(a, f, t)}
    \cup (IF use_cache(a) /\ load_cache(f).some
             /\ CacheData_is_expired_overflows(load_cache(f).data, t)
          THEN {"panic"} ELSE {})

\* The first Status message of each branch.
first_status(o) ==
    CASE o = "hit" -> Status("Using cached repositories")
      [] o = "expired" -> Status("Cache expired, will fetch fresh data in background")
      [] o = "miss" -> Status("No cache found, will fetch repositories in background")
      [] o = "forced" -> Status("Force downloading repositories in background")

\* Mutant of spawns_background_task: no refresh when the cache was served.
spawns_only_without_cache(loaded_from_cache) == ~loaded_from_cache

\* spawn_background_task is called on every path, whatever cache_loaded is.
spawns_background_task(loaded_from_cache) == TRUE

\* After the GitHub part of the cycle: the GitLab part if its token is given.
after_github(a) == IF a.gitlab_token THEN "gl_begin" ELSE "save"

\* Mutant of bg_entry: the GitLab part is entered first.
bg_entry_gitlab_first(a) == IF a.gitlab_token THEN "gl_begin" ELSE "gh_begin"

\* Where the background thread starts: the GitHub part if its token is given.
bg_entry(a) == IF a.github_token THEN "gh_begin" ELSE after_github(a)

\* let use_cache = ...; cache::load_cache(); cache_data.is_expired()
CheckCache ==
    /\ fgpc = "start"
    /\ outcome' \in cache_outcomes(args, file, now)
    /\ loaded' = IF use_cache(args) THEN load_cache(file) ELSE load_cache(AbsentFile)
    /\ fgpc' = IF outcome' = "panic" THEN "panicked" ELSE "send_first"
    /\ UNCHANGED <<now, file, envVars, cache_loaded, all_repos, github_username,
                   gitlab_username, spawned, bgVars, sent, nrecv, picker>>

\* The first tx.send(Status(..)).await; on a hit the out-parameters are then
\* filled from the cache (lines 109-120).
SendFirstStatus ==
    /\ fgpc = "send_first"
    /\ HasRoom
    /\ sent' = Append(sent, first_status(outcome))
    /\ IF outcome = "hit"
       THEN /\ all_repos' = get_all_repositories(loaded.data)
            /\ github_username' = IF loaded.data.github.present
                                  THEN loaded.data.github.username ELSE github_username
            /\ gitlab_username' = IF loaded.data.gitlab.present
                                  THEN loaded.data.gitlab.username ELSE gitlab_username
            /\ fgpc' = "send_loaded"
       ELSE /\ UNCHANGED <<all_repos, github_username, gitlab_username>>
            /\ fgpc' = "spawn"
    /\ UNCHANGED <<now, file, envVars, outcome, loaded, cache_loaded, spawned, bgVars,
                   nrecv, picker>>

\* tx.send(Status("Loaded {} repositories from cache")).await; cache_loaded = true
SendLoadedStatus ==
    /\ fgpc = "send_loaded"
    /\ HasRoom
    /\ sent' = Append(sent, StatusN("Loaded repositories from cache", Len(all_repos)))
    /\ cache_loaded' = TRUE
    /\ fgpc' = "spawn"
    /\ UNCHANGED <<now, file, envVars, outcome, loaded, all_repos, github_username,
                   gitlab_username, spawned, bgVars, nrecv, picker>>

\* spawn_background_task(..) and the test that follows it (lines 143-146).
SpawnBackgroundTask ==
    /\ fgpc = "spawn"
    /\ IF spawns_background_task(cache_loaded)
       THEN spawned' = spawned + 1 /\ bgpc' = bg_entry(args)
       ELSE UNCHANGED <<spawned, bgpc>>
    /\ fgpc' = IF ~cache_loaded /\ all_repos = <<>> THEN "send_waiting" ELSE "returned"
    /\ UNCHANGED <<now, file, envVars, outcome, loaded, cache_loaded, all_repos,
                   github_username, gitlab_username, bg, ghRes, glRes, saves, saveRes,
                   sent, nrecv, picker>>

\* tx.send(Status("Waiting for initial repository data...")).await; Ok(())
SendWaitingStatus ==
    /\ fgpc = "send_waiting"
    /\ HasRoom
    /\ sent' = Append(sent, Status("Waiting for initial repository data..."))
    /\ fgpc' = "returned"
    /\ UNCHANGED <<now, file, envVars, outcome, loaded, cache_loaded, all_repos,
                   github_username, gitlab_username, spawned, bgVars, nrecv, picker>>

\* ---------------------------------------------------- spawn_background_task
\* Mutant of extend: the batch replaces the corpus instead of being appended.
extend_replaces(all, batch) == batch

\* all_repos.extend(batch)
extend(all, batch) == all \o batch

github_fetching_status == Status("Fetching GitHub repositories...")

\* Mutant of gitlab_fetching_status: the GitHub text pasted into the GitLab part.
gitlab_fetching_status_pasted == Status("Fetching GitHub repositories...")

gitlab_fetching_status == Status("Fetching GitLab repositories...")

\* format!("GitHub error: {}", e) and format!("GitLab error: {}", e)
github_error_msg == Error("GitHub error")

\* Mutant of gitlab_error_msg: the GitHub text pasted into the GitLab part.
gitlab_error_msg_pasted == Error("GitHub error")

gitlab_error_msg == Error("GitLab error")

\* Mutant of on_github_err: the error ends the cycle (as a `?` would).
on_github_err_aborts == "complete"

\* Where the thread goes when a fetch returns Err: to the Error message.
on_github_err == "gh_err"

\* Mutant of on_gitlab_err: the error is dropped and the thread goes on to save.
on_gitlab_err_silent == "save"

on_gitlab_err == "gl_err"

\* Mutant of after_save: a failed save ends the thread (as a `?` would).
after_save_fatal(ok) == IF ok THEN "saved" ELSE "done"

\* Where the thread goes after cache::save_cache returned.
after_save(ok) == IF ok THEN "saved" ELSE "save_failed"

\* tx.send(m).await in the background thread, then on to position next.
BgSend(m, next) ==
    /\ HasRoom
    /\ sent' = Append(sent, m)
    /\ bgpc' = next
    /\ UNCHANGED <<now, file, envVars, fgVars, bg, ghRes, glRes, saves, saveRes,
                   nrecv, picker>>

GitHubFetching == bgpc = "gh_begin" /\ BgSend(github_fetching_status, "gh_fetch")

\* github::fetch_repos(..) returns Ok((gh_username, gh_repos)): lines 177-190.
GitHubFetchOk ==
    /\ bgpc = "gh_fetch"
    /\ \E n \in GitHubBatchLens :
        LET gh_repos == Batch(n, GitHubUser)
            github_repo_data == [i \in 1..n |-> github_repo_to_repo_data(gh_repos[i])]
        IN /\ ghRes' = [tag |-> "ok", username |-> GitHubUser, repos |-> gh_repos]
           /\ bg' = [bg EXCEPT
                 !.github_username = GitHubUser,
                 !.all_repos = extend(bg.all_repos, github_repo_data),
                 !.cache_data = update_github(bg.cache_data, GitHubUser, github_repo_data, now)]
    /\ bgpc' = "gh_new"
    /\ UNCHANGED <<now, file, envVars, fgVars, glRes, saves, saveRes, sent, nrecv, picker>>

\* github::fetch_repos(..) returns Err(e).
GitHubFetchErr ==
    /\ bgpc = "gh_fetch"
    /\ ghRes' = [tag |-> "err", username |-> "", repos |-> <<>>]
    /\ bgpc' = on_github_err
    /\ UNCHANGED <<now, file, envVars, fgVars, bg, glRes, saves, saveRes, sent, nrecv,
                   picker>>

GitHubSendNewRepos ==
    /\ bgpc = "gh_new"
    /\ BgSend(NewRepos(bg.all_repos, bg.github_username, bg.gitlab_username), "gh_fetched")

GitHubSendFetched ==
    /\ bgpc = "gh_fetched"
    /\ BgSend(StatusN("Fetched GitHub repositories", Len(ghRes.repos)), after_github(args))

GitHubSendError == bgpc = "gh_err" /\ BgSend(github_error_msg, after_github(args))

GitLabFetching == bgpc = "gl_begin" /\ BgSend(gitlab_fetching_status, "gl_fetch")

\* gitlab::fetch_repos(..) returns Ok((gl_username, gl_repos)): lines 216-229.
GitLabFetchOk ==
    /\ bgpc = "gl_fetch"
    /\ \E n \in GitLabBatchLens :
        LET gl_repos == Batch(n, GitLabUser)
            gitlab_repo_data == [i \in 1..n |-> gitlab_repo_to_repo_data(gl_repos[i])]
        IN /\ glRes' = [tag |-> "ok", username |-> GitLabUser, repos |-> gl_repos]
           /\ bg' = [bg EXCEPT
                 !.gitlab_username = GitLabUser,
                 !.all_repos = extend(bg.all_repos, gitlab_repo_data),
                 !.cache_data = update_gitlab(bg.cache_data, GitLabUser, gitlab_repo_data, now)]
    /\ bgpc' = "gl_new"
    /\ UNCHANGED <<now, file, envVars, fgVars, ghRes, saves, saveRes, sent, nrecv, picker>>

\* gitlab::fetch_repos(..) returns Err(e).
GitLabFetchErr ==
    /\ bgpc = "gl_fetch"
    /\ glRes' = [tag |-> "err", username |-> "", repos |-> <<>>]
    /\ bgpc' = on_gitlab_err
    /\ UNCHANGED <<now, file, envVars, fgVars, bg, ghRes, saves, saveRes, sent, nrecv,
                   picker>>

GitLabSendNewRepos ==
    /\ bgpc = "gl_new"
    /\ BgSend(NewRepos(bg.all_repos, bg.github_username, bg.gitlab_username), "gl_fetched")

GitLabSendFetched ==
    /\ bgpc = "gl_fetched"
    /\ BgSend(StatusN("Fetched GitLab repositories", Len(glRes.repos)), "save")

GitLabSendError == bgpc = "gl_err" /\ BgSend(gitlab_error_msg, "save")

\* cache::save_cache(&cache_data) returns Ok: the file holds the snapshot.
SaveCacheOk ==
    /\ bgpc = "save"
    /\ saves' = saves + 1
    /\ file' = to_json(bg.cache_data)
    /\ saveRes' = "ok"
    /\ bgpc' = after_save(TRUE)
    /\ UNCHANGED <<now, envVars, fgVars, bg, ghRes, glRes, sent, nrecv, picker>>

\* cache::save_cache(&cache_data) returns Err: fs::write failed before it
\* touched the file, or after it had truncated it.
SaveCacheErr ==
    /\ bgpc = "save"
    /\ saves' = saves + 1
    /\ file' \in {file, MalformedFile}
    /\ saveRes' = "err"
    /\ bgpc' = after_save(FALSE)
    /\ UNCHANGED <<now, envVars, fgVars, bg, ghRes, glRes, sent, nrecv, picker>>

SendCacheUpdated ==
    bgpc = "saved" /\ BgSend(Status("Cache updated successfully"), "complete")

SendSaveError == bgpc = "save_failed" /\ BgSend(Error("Failed to save cache"), "complete")

SendLoadingComplete == bgpc = "complete" /\ BgSend(LoadingComplete, "done")

\* ------------------------------------------------------------------ picker
\* The picker's handling of one message taken from the channel.
PickerApply(p, m) ==
    CASE m.type = "NewRepos" -> update_filter([p EXCEPT !.items = m.repos])
      [] m.type = "Status" -> [p EXCEPT !.status_message = m.text]
      [] m.type = "Error" -> [p EXCEPT !.error_message = m.text]
      [] m.type = "LoadingComplete" -> [p EXCEPT !.status_message = ""]

\* What the status line shows: the error takes precedence over the status.
Overlay(p) == IF p.error_message # "" THEN p.error_message ELSE p.status_message

\* The picker takes the next message from the channel (try_recv in its loop).
PickerDrain ==
    /\ nrecv < Len(sent)
    /\ picker' = PickerApply(picker, sent[nrecv + 1])
    /\ nrecv' = nrecv + 1
    /\ UNCHANGED <<now, file, envVars, fgVars, bgVars, sent>>

\* --------------------------------------------------------------- next run
\* The program is run again later: a new process, a new channel, the same file.
Restart ==
    /\ fgpc = "returned"
    /\ run < MaxRuns
    /\ run' = run + 1
    /\ \E gap \in RunGaps : now' = now + gap
    /\ args' \in ArgSets
    /\ fgpc' = "start"
    /\ outcome' = "none"
    /\ loaded' = load_cache(AbsentFile)
    /\ cache_loaded' = FALSE
    /\ all_repos' = <<>>
    /\ github_username' = ""
    /\ gitlab_username' = ""
    /\ spawned' = 0
    /\ bgpc' = "idle"
    /\ bg' = BgLocals
    /\ ghRes' = NoResult
    /\ glRes' = NoResult
    /\ saves' = 0
    /\ saveRes' = "none"
    /\ sent' = <<>>
    /\ nrecv' = 0
    /\ picker' = PickerNew
    /\ UNCHANGED <<file, cap>>

Next ==
    \/ CheckCache
    \/ SendFirstStatus
    \/ SendLoadedStatus
    \/ SpawnBackgroundTask
    \/ SendWaitingStatus
    \/ GitHubFetching
    \/ GitHubFetchOk
    \/ GitHubFetchErr
    \/ GitHubSendNewRepos
    \/ GitHubSendFetched
    \/ GitHubSendError
    \/ GitLabFetching
    \/ GitLabFetchOk
    \/ GitLabFetchErr
    \/ GitLabSendNewRepos
    \/ GitLabSendFetched
    \/ GitLabSendError
    \/ SaveCacheOk
    \/ SaveCacheErr
    \/ SendCacheUpdated
    \/ SendSaveError
    \/ SendLoadingComplete
    \/ PickerDrain
    \/ Restart

Spec == Init /\ [][Next]_vars

\* ------------------------------------------------- the cache check, alone
\* Ages of the snapshots a cache file left by an earlier run can hold: fresh,
\* and the three ages around the expiry boundary.
SnapshotAges == {0, CACHE_EXPIRY - 1, CACHE_EXPIRY, CACHE_EXPIRY + 1}

\* The repositories of a stored snapshot, as update_github / update_gitlab got them.
StoredGitHub(n) == [i \in 1..n |-> github_repo_to_repo_data(FetchedRepo(i, GitHubUser))]
StoredGitLab(n) == [i \in 1..n |-> gitlab_repo_to_repo_data(FetchedRepo(i, GitLabUser))]

\* The cache data an earlier run can have saved before time t.
StoredCaches(t) ==
    {[github |-> g, gitlab |-> l] :
        g \in {NoSource} \cup {SourceData(GitHubUser, StoredGitHub(n), t - age) :
                                    n \in GitHubBatchLens, age \in SnapshotAges},
        l \in {NoSource} \cup {SourceData(GitLabUser, StoredGitLab(n), t - age) :
                                    n \in GitLabBatchLens, age \in SnapshotAges}}

\* The cache files a run can find at time t: none, an unparsable one, or one
\* that save_cache wrote.
CacheFiles(t) == {AbsentFile, MalformedFile} \cup {to_json(c) : c \in StoredCaches(t)}

\* One call of load_repositories_with_background_refresh on any such file.
CacheInit ==
    /\ now = 2 * CACHE_EXPIRY
    /\ file \in CacheFiles(now)
    /\ run = 1
    /\ cap \in Capacities
    /\ args \in ArgSets
    /\ StartOfCall

\* The synchronous part of the call, and the picker draining the channel.
CacheNext ==
    \/ CheckCache
    \/ SendFirstStatus
    \/ SendLoadedStatus
    \/ SpawnBackgroundTask
    \/ SendWaitingStatus
    \/ PickerDrain

CacheSpec == CacheInit /\ [][CacheNext]_vars

\* ------------------------------------ the cache check with a skewed clock
\* Ages of the snapshots of a cache file when the clock may have been moved
\* back since it was written (or the file edited): one second in the future,
\* written now, and past the expiry window.
SkewedAges == {0 - 1, 0, CACHE_EXPIRY + 1}

SkewedCaches(t) ==
    {[github |-> g, gitlab |-> l] :
        g \in {NoSource} \cup {SourceData(GitHubUser, StoredGitHub(MaxBatch), t - age) :
                                    age \in SkewedAges},
        l \in {NoSource} \cup {SourceData(GitLabUser, StoredGitLab(MaxBatch), t - age) :
                                    age \in SkewedAges}}

SkewedInit ==
    /\ now = 2 * CACHE_EXPIRY
    /\ file \in {to_json(c) : c \in SkewedCaches(now)}
    /\ run = 1
    /\ cap \in Capacities
    /\ args \in ArgSets
    /\ StartOfCall

SkewedSpec == SkewedInit /\ [][CacheNext]_vars

\* ---------------------------------------- one refresh cycle, run to its end
\* The cache files of the two ways into a cycle: no file (a miss) and a fresh
\* snapshot of GitHub (a hit).
CycleFiles(t) ==
    {AbsentFile,
     to_json([github |-> SourceData(GitHubUser, StoredGitHub(MaxBatch), t),
              gitlab |-> NoSource])}

CycleInit ==
    /\ now = 2 * CACHE_EXPIRY
    /\ file \in CycleFiles(now)
    /\ run = 1
    /\ cap \in Capacities
    /\ args \in ArgSets
    /\ StartOfCall

\* A step of the background thread: a send, the return of a fetch, or the
\* return of save_cache.
BackgroundStep ==
    \/ GitHubFetching
    \/ GitHubFetchOk
    \/ GitHubFetchErr
    \/ GitHubSendNewRepos
    \/ GitHubSendFetched
    \/ GitHubSendError
    \/ GitLabFetching
    \/ GitLabFetchOk
    \/ GitLabFetchErr
    \/ GitLabSendNewRepos
    \/ GitLabSendFetched
    \/ GitLabSendError
    \/ SaveCacheOk
    \/ SaveCacheErr
    \/ SendCacheUpdated
    \/ SendSaveError
    \/ SendLoadingComplete

\* One run of the program: the foreground call, the thread it spawns and the
\* picker taking the messages.
CycleNext ==
    \/ CheckCache
    \/ SendFirstStatus
    \/ SendLoadedStatus
    \/ SpawnBackgroundTask
    \/ SendWaitingStatus
    \/ BackgroundStep
    \/ PickerDrain

\* The spawned thread keeps running (std::thread::spawn, rt.block_on), every
\* fetch and save_cache returns, and the picker keeps taking messages.
CycleSpec ==
    CycleInit /\ [][CycleNext]_vars /\ WF_vars(BackgroundStep) /\ WF_vars(PickerDrain)

\* ------------------------------------------------- the picker on its keys
\* The characters the user types: letters, the space between terms and the
\* '-' of an exclusion term.
KeyChars == {"a", "b", " ", "-"}

\* Terminal heights a render reads: fewer item lines than max_display, as
\* many, and the default.
Heights == {8, max_display + 3, DefaultHeight}

\* Sizes of the corpus: empty, and more than a screenful.
ItemCounts == {0, MaxItems}

\* A letter that sets the i-th display line apart from the others.
TagChars == <<"0", "1", "2", "3", "4", "5", "6", "7", "8", "9", "c", "d", "e", "f", "g", "h">>

\* The i-th display line of a corpus of n: "Ab", "ba", then lines with "a"
\* only and a last line with "b" only, each with its tag.
Item(i, n) ==
    (IF i = n THEN <<"b">>
     ELSE IF i = 1 THEN <<"A", "b">>
     ELSE IF i = 2 THEN <<"b", "a">>
     ELSE <<"a">>) \o <<TagChars[i]>>

Corpus(n) == [i \in 1..n |-> Item(i, n)]

pickerFrame == <<now, file, envVars, fgVars, bgVars, sent, nrecv>>

\* run() is in its loop, waiting for a key.
Running == picker.exit = "none"

\* The end of one turn of the loop of run(): the key is handled and render
\* has read the terminal size.
Turn(p, key, height) ==
    [p EXCEPT !.key = key, !.before = View(picker), !.height = height]

PickerInit ==
    /\ now = 2 * CACHE_EXPIRY
    /\ file = AbsentFile
    /\ run = 1
    /\ cap = MaxCap
    /\ args = [github_token |-> TRUE, gitlab_token |-> TRUE, force_download |-> FALSE]
    /\ CallNotStarted
    /\ \E n \in ItemCounts, height \in Heights : picker = PickerStart(Corpus(n), height)

\* Key::Char(c): query.push(c); cursor_pos += 1; update_filter(); render,
\* for a character of chars, a query shorter than max_len and a terminal
\* height of heights.
TypeChar(chars, max_len, heights) ==
    /\ Running
    /\ Len(picker.query) < max_len
    /\ \E c \in chars, height \in heights :
          picker' = Turn(update_filter([picker EXCEPT !.query = Append(@, c),
                                                      !.cursor_pos = @ + 1]),
                         "Char", height)
    /\ UNCHANGED pickerFrame

KeyChar == TypeChar(KeyChars, MaxQuery, Heights)

\* Mutant of KeyBackspace: the character is popped, cursor_pos is left alone.
KeyBackspace_keeps_cursor ==
    /\ Running
    /\ \E height \in Heights :
          picker' = Turn(IF picker.query # <<>> /\ picker.cursor_pos > 0
                         THEN update_filter(
                                 [picker EXCEPT !.query = SubSeq(@, 1, Len(@) - 1)])
                         ELSE picker,
                         "Backspace", height)
    /\ UNCHANGED pickerFrame

\* Key::Backspace: on a non-empty query, query.pop(); cursor_pos -= 1;
\* update_filter(); render
KeyBackspace ==
    /\ Running
    /\ \E height \in Heights :
          picker' = Turn(IF picker.query # <<>> /\ picker.cursor_pos > 0
                         THEN update_filter(
                                 [picker EXCEPT !.query = SubSeq(@, 1, Len(@) - 1),
                                                !.cursor_pos = @ - 1])
                         ELSE picker,
                         "Backspace", height)
    /\ UNCHANGED pickerFrame

\* Key::Up: move_cursor_up(); render
KeyUp ==
    /\ Running
    /\ \E height \in Heights : picker' = Turn(move_cursor_up(picker), "Up", height)
    /\ UNCHANGED pickerFrame

\* Key::Down: move_cursor_down(); render
KeyDown ==
    /\ Running
    /\ \E height \in Heights : picker' = Turn(move_cursor_down(picker), "Down", height)
    /\ UNCHANGED pickerFrame

\* Mutant of on_enter: the index is taken in items instead of filtered_items.
on_enter_in_items(ff) ==
    IF ff.filtered_items # <<>> THEN SomeItem(ff.items[ff.selected_index + 1]) ELSE NoItem

\* What Enter makes run() return: the selected line of a non-empty list.
on_enter(ff) ==
    IF ff.filtered_items # <<>>
    THEN SomeItem(ff.filtered_items[ff.selected_index + 1]) ELSE NoItem

\* Key::Char('\n') | Key::Char('\r'): return Some(selected) when there is a
\* line to select, else nothing but the render.
KeyEnter ==
    /\ Running
    /\ IF on_enter(picker).some
       THEN picker' = [picker EXCEPT !.key = "Enter", !.before = View(picker),
                                     !.terminal = drop_screen(cleanup_terminal(@)),
                                     !.exit = "selected", !.result = on_enter(picker)]
       ELSE \E height \in Heights : picker' = Turn(picker, "Enter", height)
    /\ UNCHANGED pickerFrame

\* Key::Ctrl('c') and Key::Esc: exit_program
KeyCancel ==
    /\ Running
    /\ picker' = [picker EXCEPT !.key = "Cancel", !.before = View(picker),
                                !.terminal = process_exit(cleanup_terminal(@)),
                                !.exit = "cancelled"]
    /\ UNCHANGED pickerFrame

\* The handler of setup_ctrl_c_handler runs on an interrupt signal:
\* terminal::cleanup_terminal(), then process::exit(0).
Interrupt ==
    /\ Running
    /\ picker' = [picker EXCEPT !.key = "Interrupt", !.before = View(picker),
                                !.terminal = process_exit(cleanup_terminal(@)),
                                !.exit = "interrupted"]
    /\ UNCHANGED pickerFrame

\* Any other key: nothing but the render.
KeyOther ==
    /\ Running
    /\ \E height \in Heights : picker' = Turn(picker, "Other", height)
    /\ UNCHANGED pickerFrame

PickerNext ==
    \/ KeyChar
    \/ KeyBackspace
    \/ KeyUp
    \/ KeyDown
    \/ KeyEnter
    \/ KeyCancel
    \/ KeyOther
    \/ Interrupt

PickerSpec == PickerInit /\ [][PickerNext]_vars

\* ------------------------------------- the picker on keys and on new corpora
\* Sizes of the corpus a NewRepos message brings: none, a few lines, a screenful
\* and more.
LiveCounts == {0, 3, MaxItems}

\* One turn of the loop in which the picker takes a NewRepos message with a
\* corpus of n lines from the channel.
LiveUpdateOf(n) ==
    /\ Running
    /\ \E height \in Heights :
          picker' = Turn(PickerApply(picker, NewRepos(Corpus(n), GitHubUser, GitLabUser)),
                         "NewRepos", height)
    /\ UNCHANGED pickerFrame

LiveUpdate == \E n \in LiveCounts : LiveUpdateOf(n)

LiveNext ==
    \/ KeyChar
    \/ KeyBackspace
    \/ KeyUp
    \/ KeyDown
    \/ KeyEnter
    \/ LiveUpdate

LiveSpec == PickerInit /\ [][LiveNext]_vars

\* ------------------------------------------------------- the filter, alone
\* The characters of a query: letters of both cases, the '-' of an
\* exclusion, the space between terms and a tab.
FilterChars == {"a", "b", "A", "-", " ", "\t"}

\* The item lists the filter is run on: one with mixed case, a '-' inside a
\* line and a line that occurs twice; one with a line that is a bare '-';
\* and the empty list.
FilterCorpora ==
    { << <<"A", "b">>, <<"b", "a">>, <<"a", "-", "b">>, <<"b">>, <<"A", "b">> >>,
      << <<"-">>, <<"a">>, <<"B", "-", "a">>, <<"a", "a">> >>,
      << >> }

FilterInit ==
    /\ now = 2 * CACHE_EXPIRY
    /\ file = AbsentFile
    /\ run = 1
    /\ cap = MaxCap
    /\ args = [github_token |-> TRUE, gitlab_token |-> TRUE, force_download |-> FALSE]
    /\ CallNotStarted
    /\ \E items \in FilterCorpora : picker = PickerStart(items, DefaultHeight)

\* The query grows by one character and update_filter runs filter_human on it.
FilterKeyChar == TypeChar(FilterChars, MaxFilterQuery, {DefaultHeight})

FilterNext == FilterKeyChar

FilterSpec == FilterInit /\ [][FilterNext]_vars

\* ------------------------------------------ the picker on formatted lines
\* Repository names and descriptions: without and with a word of a category,
\* and a description with a parenthesis of its own.
FormatNames == <<<<"m", "i", "s", "c">>, <<"w", "e", "b">>, <<"A", "b">>, <<"q", "a", "-", "x">>>>
FormatDescriptions ==
    {<<>>, <<"d">>, <<"a", " ", "t", "o", "o", "l">>, <<"x", " ", "(", "y", ")">>}

\* cache::RepoData of a GitHub repository.
RepoData(name, description, is_fork, is_private) ==
    [name |-> name, description |-> description, is_fork |-> is_fork,
     is_private |-> is_private, owner |-> GitHubUser, source |-> "GitHub"]

\* The display line of a repository.
display_line(repo) ==
    format_repository(repo.name, repo.description, repo.is_fork, repo.is_private)

\* The repositories are loaded and the picker is started on their display lines.
FormatInit ==
    /\ now = 2 * CACHE_EXPIRY
    /\ file = AbsentFile
    /\ run = 1
    /\ cap = MaxCap
    /\ args = [github_token |-> TRUE, gitlab_token |-> FALSE, force_download |-> FALSE]
    /\ fgpc = "start"
    /\ outcome = "none"
    /\ loaded = load_cache(AbsentFile)
    /\ cache_loaded = FALSE
    /\ github_username = GitHubUser
    /\ gitlab_username = GitLabUser
    /\ spawned = 0
    /\ bgpc = "idle"
    /\ bg = BgLocals
    /\ ghRes = NoResult
    /\ glRes = NoResult
    /\ saves = 0
    /\ saveRes = "none"
    /\ sent = <<>>
    /\ nrecv = 0
    /\ \E description \in FormatDescriptions, is_fork \in BOOLEAN, is_private \in BOOLEAN :
          all_repos = [i \in DOMAIN FormatNames |->
                          RepoData(FormatNames[i], description, is_fork, is_private)]
    /\ picker = PickerStart([i \in DOMAIN all_repos |-> display_line(all_repos[i])],
                            DefaultHeight)

FormatNext ==
    \/ KeyDown
    \/ KeyUp
    \/ KeyEnter

FormatSpec == FormatInit /\ [][FormatNext]_vars

\* ------------------------------------- the picker on a resized terminal
\* Terminal sizes a render can read: one column or row, the sizes around the
\* constants render subtracts, and the default.
TermWidths == {1, 7, 8, DefaultWidth}
TermHeights == {1, 3, 4, DefaultHeight}

\* The end of a turn of the loop whose render read width columns and height rows.
Resized(p, key, width, height) == [Turn(p, key, height) EXCEPT !.width = width]

ResizeInit ==
    /\ now = 2 * CACHE_EXPIRY
    /\ file = AbsentFile
    /\ run = 1
    /\ cap = MaxCap
    /\ args = [github_token |-> TRUE, gitlab_token |-> TRUE, force_download |-> FALSE]
    /\ CallNotStarted
    /\ \E n \in ItemCounts, width \in TermWidths, height \in TermHeights :
          picker = [PickerStart(Corpus(n), height) EXCEPT !.width = width]

\* Key::Char(c) with the terminal resized before the render.
ResizedChar ==
    /\ Running
    /\ Len(picker.query) < MaxQuery
    /\ \E c \in KeyChars, width \in TermWidths, height \in TermHeights :
          picker' = Resized(update_filter([picker EXCEPT !.query = Append(@, c),
                                                         !.cursor_pos = @ + 1]),
                            "Char", width, height)
    /\ UNCHANGED pickerFrame

\* Key::Down with the terminal resized before the render.
ResizedDown ==
    /\ Running
    /\ \E width \in TermWidths, height \in TermHeights :
          picker' = Resized(move_cursor_down(picker), "Down", width, height)
    /\ UNCHANGED pickerFrame

ResizeNext ==
    \/ ResizedChar
    \/ ResizedDown

ResizeSpec == ResizeInit /\ [][ResizeNext]_vars

\* ================================================================ claims
IsPrefix(s, t) == Len(s) <= Len(t) /\ SubSeq(t, 1, Len(s)) = s

Succeeded(r) == r.tag = "ok"
Failed(r) == r.tag = "err"

\* The batch a successful fetch returned, as the corpus holds it.
BatchOf(r, source) ==
    [i \in 1..Len(r.repos) |->
        [name |-> r.repos[i].name, owner |-> r.repos[i].owner, source |-> source]]
GitHubBatch == IF Succeeded(ghRes) THEN BatchOf(ghRes, "GitHub") ELSE <<>>
GitLabBatch == IF Succeeded(glRes) THEN BatchOf(glRes, "GitLab") ELSE <<>>

\* The NewRepos messages enqueued so far, in order.
NewReposSent == SelectSeq(sent, LAMBDA m : m.type = "NewRepos")

\* The NewRepos messages the fetch results so far call for.
NewReposDue ==
    (IF Succeeded(ghRes)
     THEN <<[type |-> "NewRepos", text |-> "", count |-> 0, repos |-> GitHubBatch,
             github_username |-> ghRes.username, gitlab_username |-> ""]>>
     ELSE <<>>)
    \o (IF Succeeded(glRes)
        THEN <<[type |-> "NewRepos", text |-> "", count |-> 0,
                repos |-> GitHubBatch \o GitLabBatch,
                github_username |-> ghRes.username, gitlab_username |-> glRes.username]>>
        ELSE <<>>)

\* The sources whose fetch succeeded so far, in the order of their success.
SucceededSources ==
    (IF Succeeded(ghRes) THEN <<"GitHub">> ELSE <<>>)
        \o (IF Succeeded(glRes) THEN <<"GitLab">> ELSE <<>>)

Count(m) == Len(SelectSeq(sent, LAMBDA x : x = m))

\* C1: every NewRepos message carries the concatenation of the batches of the
\* sources that have succeeded so far in the cycle (GitHub before GitLab, each
\* once) and the usernames known so far (empty for a source that has not
\* succeeded); the corpus of an earlier NewRepos is a prefix of a later one.
C1_MergedSoFar ==
    /\ IsPrefix(NewReposSent, NewReposDue)
    /\ \A i, j \in DOMAIN NewReposSent :
          i <= j => IsPrefix(NewReposSent[i].repos, NewReposSent[j].repos)

C1_Witness ==
    /\ Len(NewReposSent) = 2
    /\ Len(ghRes.repos) = MaxBatch
    /\ Len(glRes.repos) = MaxBatch

\* C2: a failed fetch emits exactly one Error message naming its source and
\* does not stop the cycle: the other configured source is still fetched and,
\* if it succeeds, its NewRepos is emitted.
C2_FailureDoesNotStopCycle ==
    /\ Count(Error("GitHub error")) <= 1
    /\ Count(Error("GitLab error")) <= 1
    /\ Count(Error("GitHub error")) = 1 => Failed(ghRes)
    /\ Count(Error("GitLab error")) = 1 => Failed(glRes)
    /\ bgpc = "done" =>
          /\ Failed(ghRes) => Count(Error("GitHub error")) = 1
          /\ Failed(glRes) => Count(Error("GitLab error")) = 1
          /\ args.github_token => ghRes.tag # "none"
          /\ args.gitlab_token => glRes.tag # "none"
          /\ NewReposSent = NewReposDue

C2_Witness == bgpc = "done" /\ Failed(ghRes) /\ Succeeded(glRes) /\ Len(glRes.repos) = MaxBatch

\* The snapshot a successful save must leave in the file.
SnapshotOf(r, batch, slot) ==
    /\ slot.present = Succeeded(r)
    /\ slot.present => slot.username = r.username /\ slot.repositories = batch

SourcesFinished ==
    /\ args.github_token => ghRes.tag # "none"
    /\ args.gitlab_token => glRes.tag # "none"
    /\ Failed(ghRes) => Count(Error("GitHub error")) = 1
    /\ Failed(glRes) => Count(Error("GitLab error")) = 1
    /\ NewReposSent = NewReposDue

C3_State ==
    /\ saves <= 1
    /\ saves = 1 => SourcesFinished
    /\ Count(LoadingComplete) > 0 => saves = 1
    /\ saveRes = "ok" =>
          /\ file.state = "json"
          /\ SnapshotOf(ghRes, GitHubBatch, file.data.github)
          /\ SnapshotOf(glRes, GitLabBatch, file.data.gitlab)

\* C3: in every cycle the cache is saved exactly once, after all configured
\* sources have finished and before LoadingComplete is emitted; the snapshot
\* saved holds a source's entry iff that source's fetch succeeded in this
\* cycle; the file changes only in that save, never in a step of the picker.
C3_CacheWrittenOnce ==
    /\ []C3_State
    /\ [][file' # file => saves' = saves + 1 /\ nrecv' = nrecv /\ picker' = picker]_vars

C3_Witness ==
    /\ bgpc = "done"
    /\ saveRes = "ok"
    /\ Succeeded(glRes)
    /\ Failed(ghRes)
    /\ Len(glRes.repos) = MaxBatch

\* C4: no NewRepos is emitted after LoadingComplete, and every NewRepos is
\* preceded by the "Fetching ..." Status of the source whose success produced it.
C4_NewReposOrder ==
    \A i \in DOMAIN sent :
        sent[i].type = "NewRepos" =>
            LET k == Len(SelectSeq(SubSeq(sent, 1, i), LAMBDA m : m.type = "NewRepos"))
                fetching == IF k <= Len(SucceededSources) /\ SucceededSources[k] = "GitHub"
                            THEN Status("Fetching GitHub repositories...")
                            ELSE Status("Fetching GitLab repositories...")
            IN /\ \A j \in 1..(i - 1) : sent[j].type # "LoadingComplete"
               /\ \E j \in 1..(i - 1) : sent[j] = fetching

C4_Witness ==
    /\ Count(LoadingComplete) = 1
    /\ Len(NewReposSent) = 2

BothConfigured == args.github_token /\ args.gitlab_token

\* The GitLab part of the cycle has begun: its "Fetching ..." Status is out.
GitLabBegun == Count(Status("Fetching GitLab repositories...")) > 0

\* The GitHub part is over: its fetch returned and its last message is out.
GitHubOver ==
    \/ Succeeded(ghRes) /\ Count(StatusN("Fetched GitHub repositories", Len(ghRes.repos))) > 0
    \/ Failed(ghRes) /\ Count(Error("GitHub error")) > 0

\* GitHub's fetch is in flight: its "Fetching ..." Status is out, no result yet.
GitHubInFlight ==
    Count(Status("Fetching GitHub repositories...")) > 0 /\ ghRes.tag = "none"

ForegroundSending == fgpc \in {"send_first", "send_loaded", "send_waiting"}
BackgroundSending ==
    bgpc \in {"gh_begin", "gh_new", "gh_fetched", "gh_err", "gl_begin", "gl_new",
              "gl_fetched", "gl_err", "saved", "save_failed", "complete"}

\* C6: the orchestrator never blocks on the picker consuming messages, for
\* every capacity of at least 1: no send of the foreground function or of the
\* background thread ever has to wait for the picker to take a message.
C6_NeverBlocksOnPicker == (ForegroundSending \/ BackgroundSending) => HasRoom

\* The corpus a batch of n repositories of a source gives.
CorpusOf(n, owner, source) ==
    [i \in 1..n |-> [name |-> i, owner |-> owner, source |-> source]]

CycleOverAndDrained ==
    /\ fgpc = "returned"
    /\ bgpc = "done"
    /\ nrecv = Len(sent)

EmptyCacheTwoSources == run = 1 /\ outcome = "miss" /\ BothConfigured

C8_AlwaysOneCycle ==
    /\ spawned <= 1
    /\ fgpc \in {"send_waiting", "returned"} => spawned = 1 /\ bgpc # "idle"
    /\ bgpc # "idle" => spawned = 1
    /\ bgpc = "done" =>
          /\ args.github_token => ghRes.tag # "none"
          /\ args.gitlab_token => glRes.tag # "none"
          /\ saves = 1
          /\ Count(LoadingComplete) = 1

C8_Witness == outcome = "hit" /\ fgpc = "returned" /\ bgpc = "done" /\ saveRes = "ok"

\* C9: on a cache hit, when the call returns, all_repos is the cached GitHub
\* repositories followed by the cached GitLab repositories in stored order and
\* each username is that of the snapshot present in the cache; no fetch result
\* is waited for.
C9_CacheHitServed ==
    (outcome = "hit" /\ fgpc \in {"send_loaded", "spawn", "returned"}) =>
        LET gh == loaded.data.github
            gl == loaded.data.gitlab
        IN /\ loaded.some
           /\ saves = 0 => loaded.data = file.data
           /\ Len(all_repos) = (IF gh.present THEN Len(gh.repositories) ELSE 0)
                                 + (IF gl.present THEN Len(gl.repositories) ELSE 0)
           /\ \A i \in DOMAIN all_repos :
                 all_repos[i] =
                    IF gh.present /\ i <= Len(gh.repositories)
                    THEN gh.repositories[i]
                    ELSE gl.repositories[i - (IF gh.present THEN Len(gh.repositories) ELSE 0)]
           /\ github_username = (IF gh.present THEN gh.username ELSE "")
           /\ gitlab_username = (IF gl.present THEN gl.username ELSE "")

C9_Witness ==
    /\ outcome = "hit"
    /\ fgpc = "returned"
    /\ ghRes.tag = "none"
    /\ glRes.tag = "none"
    /\ Len(all_repos) = 2 * MaxBatch
    /\ github_username = "gh_user"
    /\ gitlab_username = "gl_user"

\* C10 as stated: the cache is served as a hit only if every configured source
\* has a snapshot in the cache and none of them is expired.
C10_HitNeedsEveryConfiguredSource ==
    outcome = "hit" =>
        /\ args.github_token =>
              loaded.data.github.present /\ now - loaded.data.github.timestamp <= 1800
        /\ args.gitlab_token =>
              loaded.data.gitlab.present /\ now - loaded.data.gitlab.timestamp <= 1800

\* C10 amended: the cache is served as a hit exactly when force_download is
\* off, the file loads, at least one source has a snapshot in it and no
\* snapshot in it is expired, whichever sources are configured.
C10_HitNeedsFreshPresentSnapshots ==
    outcome # "none" =>
        (outcome = "hit" <=>
            /\ ~args.force_download
            /\ loaded.some
            /\ loaded.data.github.present \/ loaded.data.gitlab.present
            /\ loaded.data.github.present => now - loaded.data.github.timestamp <= 1800
            /\ loaded.data.gitlab.present => now - loaded.data.gitlab.timestamp <= 1800)

C10_Witness ==
    /\ outcome = "hit"
    /\ BothConfigured
    /\ loaded.data.github.present
    /\ ~loaded.data.gitlab.present

\* ------------------------------------------------- claims on the cache check
\* The cache check has been made, with the cache in use and a file that loaded.
CacheChecked == fgpc # "start" /\ use_cache(args) /\ loaded.some

Age(snapshot) == now - snapshot.timestamp

\* The snapshots the loaded cache holds.
PresentSnapshots ==
    {s \in {loaded.data.github, loaded.data.gitlab} : s.present}

\* C11: the combined cache is reported expired if and only if at least one
\* snapshot present in it is older than the expiry window or no snapshot is
\* present in it; with two snapshots, one expired and one fresh, it is expired.
C11_CombinedExpiry ==
    CacheChecked =>
        /\ outcome \in {"expired", "hit"}
        /\ outcome = "expired" <=>
              \/ \E s \in PresentSnapshots : Age(s) > 1800
              \/ PresentSnapshots = {}

C11_Witness ==
    /\ CacheChecked
    /\ outcome = "expired"
    /\ loaded.data.github.present
    /\ loaded.data.gitlab.present
    /\ Age(loaded.data.github) = 0
    /\ Age(loaded.data.gitlab) = 1801

\* C12: a snapshot is expired exactly when now - timestamp > 1800 (for a
\* timestamp not later than now): a cache holding one snapshot is reported
\* expired exactly then, expired at age 1801 and not expired at age 1799.
C12_ExpiredAfterWindow ==
    (CacheChecked /\ Cardinality(PresentSnapshots) = 1) =>
        \A s \in PresentSnapshots :
            /\ s.timestamp <= now
            /\ outcome = "expired" <=> now - s.timestamp > 1800
            /\ s.timestamp = now - 1801 => outcome = "expired"
            /\ s.timestamp = now - 1799 => outcome = "hit"

C12_Witness ==
    /\ CacheChecked
    /\ PresentSnapshots = {loaded.data.gitlab}
    /\ loaded.data.gitlab.timestamp = now - 1799
    /\ outcome = "hit"
    /\ fgpc = "returned"

\* C13 as stated: a snapshot whose age is exactly 1800 seconds is reported expired.
C13_BoundaryExpired ==
    (CacheChecked /\ \E s \in PresentSnapshots : Age(s) = 1800) => outcome = "expired"

\* C13 amended: a snapshot whose age is exactly 1800 seconds is reported not
\* expired (a cache whose snapshots are all that old or younger is a hit); the
\* first expired age is 1801.
C13_BoundaryNotExpired ==
    CacheChecked =>
        /\ (/\ \E s \in PresentSnapshots : Age(s) = 1800
            /\ \A s \in PresentSnapshots : Age(s) <= 1800) => outcome = "hit"
        /\ (\E s \in PresentSnapshots : Age(s) = 1801) => outcome = "expired"

C13_Witness ==
    /\ CacheChecked
    /\ PresentSnapshots = {loaded.data.github}
    /\ Age(loaded.data.github) = 1800
    /\ outcome = "hit"
    /\ fgpc = "returned"
    /\ all_repos # <<>>

\* C14: load_cache returns None for an absent file and for an unparsable one
\* and the stored CacheData for a file save_cache wrote; the call goes on in
\* every case, and on None it takes the cache-miss branch: nothing is served
\* from the cache, "No cache found" is sent and the refresh is spawned.
C14_LoadNeverFatal ==
    (fgpc # "start" /\ use_cache(args)) =>
        /\ file.state \in {"absent", "malformed"} => ~loaded.some
        /\ \A c \in StoredCaches(now) :
              file = to_json(c) => loaded.some /\ loaded.data = c
        /\ ~loaded.some =>
              /\ outcome = "miss"
              /\ ~cache_loaded
              /\ all_repos = <<>>
              /\ fgpc # "send_loaded"
              /\ fgpc # "send_first" =>
                    sent[1] = Status("No cache found, will fetch repositories in background")
              /\ fgpc \in {"send_waiting", "returned"} => spawned = 1

C14_Witness ==
    /\ fgpc = "returned"
    /\ use_cache(args)
    /\ file.state = "malformed"
    /\ outcome = "miss"
    /\ spawned = 1

\* C15: with force_download set the call does not read the cache file and
\* leaves all_repos and both usernames as they were passed in, whatever the
\* file holds.
C15_ForceIgnoresCache ==
    args.force_download =>
        /\ loaded = load_cache(AbsentFile)
        /\ ~cache_loaded
        /\ all_repos = <<>>
        /\ github_username = ""
        /\ gitlab_username = ""
        /\ fgpc # "start" => outcome = "forced"

C15_Witness ==
    /\ args.force_download
    /\ fgpc = "returned"
    /\ file.state = "json"
    /\ file.data.github.present
    /\ file.data.gitlab.present
    /\ Age(file.data.github) = 0
    /\ Age(file.data.gitlab) = 0
    /\ file.data.github.repositories # <<>>

\* ------------------------------------------------------ claims on the picker
Max(a, b) == IF a >= b THEN a ELSE b

\* The FuzzyFinder and overlay texts of a picker, without the place in run().
PickerState(p) ==
    [items |-> p.items, filtered_items |-> p.filtered_items, query |-> p.query,
     cursor_pos |-> p.cursor_pos, selected_index |-> p.selected_index,
     max_display |-> p.max_display, scroll_offset |-> p.scroll_offset,
     status_message |-> p.status_message, error_message |-> p.error_message]

\* C16: whatever keys were pressed, selected_index is 0 when filtered_items is
\* empty and otherwise an index of filtered_items; when a filter update leaves
\* fewer lines than the old selected_index, the selection is the last line.
C16_SelectionClamped ==
    /\ picker.filtered_items = <<>> => picker.selected_index = 0
    /\ picker.filtered_items # <<>> =>
          0 <= picker.selected_index /\ picker.selected_index <= Len(picker.filtered_items) - 1
    /\ (/\ picker.key \in {"Char", "Backspace"}
        /\ picker.filtered_items # <<>>
        /\ picker.before.selected_index >= Len(picker.filtered_items))
          => picker.selected_index = Len(picker.filtered_items) - 1

C16_Witness ==
    /\ picker.key = "Char"
    /\ picker.before.selected_index = MaxItems - 1
    /\ Len(picker.filtered_items) = 3
    /\ picker.selected_index = 2

\* C17: whatever keys were pressed, scroll_offset is at most
\* max(0, len(filtered_items) - viewport), the viewport being the max_display
\* lines the scrolling code keeps the selection in: the list is never scrolled
\* past the point where its last line is at the bottom of the viewport.
C17_ScrollWithinRange ==
    /\ 0 <= picker.scroll_offset
    /\ picker.scroll_offset <= Max(0, Len(picker.filtered_items) - picker.max_display)

\* C18: after every Up, Down and filter update the selected line is one of the
\* lines render draws on the terminal it reads: scroll_offset <= selected_index
\* < scroll_offset + (height - 3).
C18_SelectionVisible ==
    (/\ picker.key \in {"Up", "Down", "Char", "Backspace"}
     /\ picker.exit = "none"
     /\ picker.filtered_items # <<>>)
        => /\ picker.scroll_offset <= picker.selected_index
           /\ picker.selected_index < picker.scroll_offset + (picker.height - 3)
           /\ picker.selected_index \in drawn(picker, picker.height)

\* C19: Up and Down move selected_index by exactly one inside the list and do
\* not wrap: Up on line 0, Down on the last line and both on an empty list
\* leave selected_index and scroll_offset as they are; neither changes query,
\* cursor_pos, items or filtered_items.
UpDownFrame ==
    /\ picker'.query = picker.query
    /\ picker'.cursor_pos = picker.cursor_pos
    /\ picker'.items = picker.items
    /\ picker'.filtered_items = picker.filtered_items

C19_UpDownByOne ==
    [][/\ KeyUp =>
            /\ UpDownFrame
            /\ IF picker.filtered_items = <<>> \/ picker.selected_index = 0
               THEN /\ picker'.selected_index = picker.selected_index
                    /\ picker'.scroll_offset = picker.scroll_offset
               ELSE picker'.selected_index = picker.selected_index - 1
       /\ KeyDown =>
            /\ UpDownFrame
            /\ IF \/ picker.filtered_items = <<>>
                  \/ picker.selected_index = Len(picker.filtered_items) - 1
               THEN /\ picker'.selected_index = picker.selected_index
                    /\ picker'.scroll_offset = picker.scroll_offset
               ELSE picker'.selected_index = picker.selected_index + 1
      ]_vars

C19_Witness ==
    /\ picker.key = "Down"
    /\ picker.filtered_items # <<>>
    /\ picker.before.selected_index = Len(picker.filtered_items) - 1
    /\ picker.selected_index = Len(picker.filtered_items) - 1
    /\ picker.scroll_offset > 0
    /\ picker.before.scroll_offset = picker.scroll_offset

\* C20: Enter on a non-empty filtered list ends run() with the line
\* filtered_items[selected_index]; on an empty filtered list it changes nothing
\* in the picker and run() stays in its loop.
C20_EnterSelects ==
    [][KeyEnter =>
          /\ PickerState(picker') = PickerState(picker)
          /\ IF picker.filtered_items # <<>>
             THEN /\ picker'.exit = "selected"
                  /\ picker'.result =
                        SomeItem(picker.filtered_items[picker.selected_index + 1])
             ELSE /\ picker'.exit = "none"
                  /\ picker'.result = NoItem
      ]_vars

C20_Witness ==
    /\ picker.key = "Enter"
    /\ picker.exit = "selected"
    /\ picker.query # <<>>
    /\ picker.selected_index = 2
    /\ Len(picker.filtered_items) < Len(picker.items)
    /\ picker.result = SomeItem(picker.filtered_items[3])
    /\ picker.result # SomeItem(picker.items[3])

\* C23: on every way out of the picker (Enter on a line, Esc or Ctrl-C, the
\* interrupt signal) the terminal is back as the program found it: main
\* screen, cursor shown, raw mode off.
C23_TerminalRestored ==
    picker.exit # "none" => picker.terminal = OriginalTerminal

\* ------------------------------------------------------ claims on the filter
\* What the claims say of a query, written without the code's operators.
Lower(s) == [i \in 1..Len(s) |-> IF s[i] = "A" THEN "a" ELSE IF s[i] = "B" THEN "b" ELSE s[i]]

\* The places of a string that hold no whitespace.
Inked(s) == {i \in 1..Len(s) : s[i] \notin {" ", "\t"}}
IsBlank(s) == Inked(s) = {}

\* The string without the whitespace at its ends.
Trimmed(s) ==
    IF IsBlank(s) THEN <<>>
    ELSE SubSeq(s, CHOOSE i \in Inked(s) : \A j \in Inked(s) : i <= j,
                   CHOOSE i \in Inked(s) : \A j \in Inked(s) : j <= i)

\* Where the terms of t lie: the longest stretches without a space.
TermSpans(t) ==
    {span \in (1..Len(t)) \X (1..Len(t)) :
        /\ span[1] <= span[2]
        /\ \A k \in span[1]..span[2] : t[k] # " "
        /\ span[1] = 1 \/ t[span[1] - 1] = " "
        /\ span[2] = Len(t) \/ t[span[2] + 1] = " "}

\* The terms of a query: trimmed, lower-cased, split on spaces, none empty.
Terms(query) ==
    LET t == Lower(Trimmed(query))
    IN {SubSeq(t, span[1], span[2]) : span \in TermSpans(t)}

\* A term that excludes: a '-' in front and at least min_len characters in all.
Excludes(term, min_len) == term[1] = "-" /\ Len(term) >= min_len

Occurs(needle, hay) ==
    \E i \in 1..(Len(hay) + 1) :
        /\ i + Len(needle) - 1 <= Len(hay)
        /\ \A k \in 1..Len(needle) : hay[i + k - 1] = needle[k]

\* The item holds every inclusion term and the text of no exclusion term.
Accepts(item, query, min_len) ==
    \A term \in Terms(query) :
        IF Excludes(term, min_len) THEN ~Occurs(Tail(term), Lower(item))
        ELSE Occurs(term, Lower(item))

Expected(items, query, min_len) ==
    SelectSeq(items, LAMBDA item : Accepts(item, query, min_len))

RECURSIVE IsSubsequence(_, _)
IsSubsequence(s, t) ==
    IF s = <<>> THEN TRUE
    ELSE IF t = <<>> THEN FALSE
    ELSE IF Head(s) = Head(t) THEN IsSubsequence(Tail(s), Tail(t))
    ELSE IsSubsequence(s, Tail(t))

Taken == SubSeq(sent, 1, nrecv)
TakenErrors == {k \in 1..nrecv : sent[k].type = "Error"}

C24_FilterSemantics ==
    ~IsBlank(picker.query) =>
        picker.filtered_items = Expected(picker.items, picker.query, 2)

C24_Witness ==
    /\ picker.query = <<"A", " ", "-", "b">>
    /\ Len(picker.items) = 4
    /\ picker.filtered_items = << <<"a">>, <<"a", "a">> >>

\* C25: on a non-empty item list a query that is empty or all whitespace
\* gives the items back unchanged.
C25_BlankIsIdentity ==
    (picker.items # <<>> /\ IsBlank(picker.query)) => picker.filtered_items = picker.items

C25_Witness ==
    /\ picker.query = <<" ", "\t">>
    /\ picker.key = "Char"
    /\ picker.items # <<>>
    /\ picker.filtered_items = picker.items

\* C26: an item whose text holds the text of an exclusion term is not in the
\* result, even when it holds every inclusion term.
C26_ExclusionWins ==
    \A i \in DOMAIN picker.filtered_items :
        \A term \in Terms(picker.query) :
            Excludes(term, 2) => ~Occurs(Tail(term), Lower(picker.filtered_items[i]))

C26_Witness ==
    /\ picker.query = <<"a", " ", "-", "b">>
    /\ \E i \in DOMAIN picker.items :
          /\ Occurs(<<"a">>, Lower(picker.items[i]))
          /\ Occurs(<<"b">>, Lower(picker.items[i]))
          /\ \A k \in DOMAIN picker.filtered_items : picker.filtered_items[k] # picker.items[i]
    /\ picker.filtered_items # <<>>

\* C27: the result is a subsequence of the items: the surviving items in
\* their order, each as often as it passes, and nothing else.
C27_Subsequence ==
    /\ IsSubsequence(picker.filtered_items, picker.items)
    /\ \A i \in DOMAIN picker.items :
          Cardinality({k \in DOMAIN picker.filtered_items :
                          picker.filtered_items[k] = picker.items[i]})
             \in {0, Cardinality({k \in DOMAIN picker.items :
                                     picker.items[k] = picker.items[i]})}

C27_Witness ==
    /\ picker.query = <<"a">>
    /\ Len(picker.items) = 5
    /\ Len(picker.filtered_items) = 4
    /\ picker.filtered_items[1] = picker.filtered_items[4]
    /\ picker.filtered_items[2] = <<"b", "a">>
    /\ picker.filtered_items[3] = <<"a", "-", "b">>

\* C28: a term that is a bare '-' is an inclusion term: with it in the query
\* only items that hold a '-' pass, and a query that is that term alone gives
\* exactly the items that hold a '-'.
C28_BareMinusIsLiteral ==
    /\ <<"-">> \in Terms(picker.query) =>
          \A i \in DOMAIN picker.filtered_items :
              Occurs(<<"-">>, picker.filtered_items[i])
    /\ Terms(picker.query) = {<<"-">>} =>
          picker.filtered_items =
              SelectSeq(picker.items, LAMBDA item : Occurs(<<"-">>, item))

C28_Witness ==
    /\ picker.query = <<"-">>
    /\ Len(picker.items) = 4
    /\ picker.filtered_items = << <<"-">>, <<"B", "-", "a">> >>

\* C29 as stated: a term excludes exactly when it starts with '-' and has at
\* least 2 characters after the '-'; every other term, a '-' followed by one
\* character among them, is an inclusion term matched as it is written.
C29_ExclusionFromThreeChars ==
    picker.filtered_items = Expected(picker.items, picker.query, 3)

\* C29 amended: a term excludes exactly when it starts with '-' and has at
\* least 1 character after the '-' (2 in all); only the bare '-' and the terms
\* that do not start with '-' are inclusion terms. A query of one term shows
\* which it is.
C29_ExclusionFromTwoChars ==
    \A term \in Terms(picker.query) :
        /\ \A i \in DOMAIN picker.filtered_items :
              IF term[1] = "-" /\ Len(term) >= 2
              THEN ~Occurs(Tail(term), Lower(picker.filtered_items[i]))
              ELSE Occurs(term, Lower(picker.filtered_items[i]))
        /\ Terms(picker.query) = {term} =>
              picker.filtered_items =
                 SelectSeq(picker.items,
                           LAMBDA item : IF term[1] = "-" /\ Len(term) >= 2
                                         THEN ~Occurs(Tail(term), Lower(item))
                                         ELSE Occurs(term, Lower(item)))

C29_Witness ==
    /\ picker.query = <<"-", "b">>
    /\ Len(picker.items) = 4
    /\ picker.filtered_items = << <<"-">>, <<"a">>, <<"a", "a">> >>

\* The terms of a query in the order they are written.
RECURSIVE TermsInOrder(_)
TermsInOrder(t) ==
    IF TermSpans(t) = {} THEN <<>>
    ELSE LET first == CHOOSE span \in TermSpans(t) :
                          \A other \in TermSpans(t) : span[1] <= other[1]
         IN <<SubSeq(t, first[1], first[2])>>
               \o TermsInOrder(SubSeq(t, first[2] + 1, Len(t)))

\* The terms written one after the other in the order perm, a space between.
RECURSIVE Joined(_, _, _)
Joined(terms, perm, k) ==
    IF k > Len(terms) THEN <<>>
    ELSE (IF k = 1 THEN <<>> ELSE <<" ">>) \o terms[perm[k]] \o Joined(terms, perm, k + 1)

Orders(n) == {perm \in [1..n -> 1..n] : \A i, j \in 1..n : perm[i] = perm[j] => i = j}

\* C30 as stated: writing the terms of the query in any other order gives the
\* same result.
C30_AnyTermOrder ==
    LET terms == TermsInOrder(Trimmed(picker.query))
    IN \A perm \in Orders(Len(terms)) :
          filter_human(picker.items, Joined(terms, perm, 1)) = picker.filtered_items

\* C30 amended: writing the terms of the query in another order gives the
\* same result when that order leaves no whitespace at either end of the
\* query (a term that begins or ends with a tab loses it to the trim once it
\* stands at the end of the query).
C30_TermOrderIrrelevant ==
    LET terms == TermsInOrder(Trimmed(picker.query))
    IN \A perm \in Orders(Len(terms)) :
          Trimmed(Joined(terms, perm, 1)) = Joined(terms, perm, 1) =>
             filter_human(picker.items, Joined(terms, perm, 1)) = picker.filtered_items

C30_Witness ==
    /\ picker.query = <<"b", " ", "-", "a">>
    /\ Len(picker.items) = 5
    /\ picker.filtered_items = << <<"b">> >>
    /\ filter_human(picker.items, <<"-", "a", " ", "b">>) = << <<"b">> >>
\* C31: after any sequence of Char, Backspace, Up and Down keys the filtered
\* list is the filter of the items under the query as it now stands, and the
\* line Enter returns is one of the items and passes that query.
C31_FilteredNeverStale ==
    /\ picker.filtered_items = filter_human(picker.items, picker.query)
    /\ picker.exit = "selected" =>
          /\ picker.result.some
          /\ \E i \in 1..Len(picker.items) : picker.items[i] = picker.result.item
          /\ filter_human(<<picker.result.item>>, picker.query) = <<picker.result.item>>

\* A character was typed and taken back: the list is the one of the shorter
\* query, neither the whole corpus nor the list of the longer query.
C31_Witness ==
    /\ picker.key = "Backspace"
    /\ picker.query = <<"b">>
    /\ Len(picker.filtered_items) = 3
    /\ Len(picker.items) = MaxItems
    /\ picker.filtered_items = filter_human(picker.items, <<"b">>)
    /\ picker.filtered_items # filter_human(picker.items, <<"b", "a">>)

\* C32: however the foreground function and the background thread interleave,
\* LoadingComplete is the last message put on the channel in its cycle.
C32_CompleteIsLast ==
    \A i \in 1..Len(sent) : sent[i] = LoadingComplete => i = Len(sent)

\* C33: a spawned refresh cycle always reaches its end whatever the fetches
\* and the save return, and it has then put exactly one LoadingComplete on the
\* channel, none before its end.
C33_CycleCompletes ==
    /\ [](Count(LoadingComplete) = IF bgpc = "done" THEN 1 ELSE 0)
    /\ (spawned = 1) ~> (bgpc = "done" /\ Count(LoadingComplete) = 1)

\* Both fetches failed, the save failed, and the cycle is over.
C33_Witness ==
    /\ Failed(ghRes)
    /\ Failed(glRes)
    /\ saveRes = "err"
    /\ bgpc = "done"
    /\ Count(LoadingComplete) = 1

\* The cache file holds a snapshot with no source in it.
EmptySnapshot == file = to_json(CacheData_new)

\* Every source the run was given a token for has failed in this cycle.
AllConfiguredFailed ==
    /\ args.github_token => Failed(ghRes)
    /\ args.gitlab_token => Failed(glRes)

\* C34: when every configured source has failed, the snapshot the cycle saves
\* has no source in it, and a run that finds such a snapshot never takes it
\* for a hit: its cache check says expired (or the cache is bypassed).
C34_EmptySnapshotNeverHit ==
    /\ (bgpc \in {"saved", "complete", "done"} /\ saveRes = "ok" /\ AllConfiguredFailed)
          => EmptySnapshot
    /\ (fgpc # "start" /\ saves = 0 /\ EmptySnapshot) =>
          /\ outcome = IF use_cache(args) THEN "expired" ELSE "forced"
          /\ all_repos = <<>>
          /\ ~cache_loaded

\* The second run has found the empty snapshot of a first run whose sources
\* all failed, and goes on to fetch.
C34_Witness ==
    /\ run = 2
    /\ EmptySnapshot
    /\ saves = 0
    /\ outcome = "expired"
    /\ fgpc = "send_waiting"
    /\ bgpc # "idle"

\* C35: cursor_pos is always the number of characters of the query; a typed
\* character is appended and moves cursor_pos up by one, Backspace takes the
\* last character off a non-empty query and moves cursor_pos down by one, and
\* changes neither on an empty query.
C35_CursorAtEndOfQuery ==
    /\ [](picker.cursor_pos = Len(picker.query))
    /\ [][/\ (picker'.key = "Char" /\ KeyChar) =>
                /\ \E c \in KeyChars : picker'.query = Append(picker.query, c)
                /\ picker'.cursor_pos = picker.cursor_pos + 1
          /\ (picker'.key = "Backspace" /\ KeyBackspace) =>
                IF picker.query = <<>>
                THEN picker'.query = <<>> /\ picker'.cursor_pos = 0
                ELSE /\ picker'.query = SubSeq(picker.query, 1, Len(picker.query) - 1)
                     /\ picker'.cursor_pos = picker.cursor_pos - 1
      ]_vars

\* Two characters were typed and one taken back.
C35_Witness ==
    /\ picker.key = "Backspace"
    /\ picker.query = <<"a">>
    /\ picker.cursor_pos = 1

\* C36: whatever width and height of at least 1 the render reads, none of
\* the sizes it computes by subtraction is below zero.
C36_RenderSizesNonNegative ==
    \A size \in render_sizes(picker, picker.width, picker.height) : size >= 0

\* C37: with a snapshot whose timestamp is later than the current time, the
\* cache check meets no overflow, and that snapshot is reported not expired.
C37_FutureTimestampNotExpired ==
    \A snapshot \in {loaded.data.github, loaded.data.gitlab} :
        (CacheChecked /\ snapshot.present /\ snapshot.timestamp > now) =>
            /\ ~SourceCache_is_expired_overflows(snapshot, now)
            /\ ~SourceCache_is_expired(snapshot, now)
            /\ outcome # "panic"

\* The repository whose display line Enter has returned.
SelectedRepo == all_repos[picker.selected_index + 1]

\* C38: the name extracted from the display line the user selected is the
\* name of the repository the line was made from, and the browser URL is
\* https://github.com/<username>/<name>.
C38_ExtractInvertsFormat ==
    picker.exit = "selected" =>
        LET info == process_repository_selection(picker.result.item, <<github_username>>,
                                                 <<gitlab_username>>)
        IN /\ info.repo_name = SelectedRepo.name
           /\ info.browser_url =
                 <<"https://", "github.com", "/", github_username, "/">> \o SelectedRepo.name

\* The ways to read the query as a non-blank query q, a space, and one more
\* non-empty term t: the positions of the space.
AddedTermAt ==
    {k \in 2..(Len(picker.query) - 1) :
        /\ picker.query[k] = " "
        /\ \A j \in (k + 1)..Len(picker.query) : picker.query[j] # " "
        /\ ~IsBlank(SubSeq(picker.query, 1, k - 1))}

\* q ends, its trailing spaces apart, in a tab.
EndsInTab(q) ==
    \E i \in 1..Len(q) : q[i] = "\t" /\ \A j \in (i + 1)..Len(q) : q[j] = " "

\* C39 as stated: the result for q followed by a space and a further term is
\* a subsequence of the result for q.
C39_AddedTermNarrowsAlways ==
    \A k \in AddedTermAt :
        IsSubsequence(picker.filtered_items,
                      filter_human(picker.items, SubSeq(picker.query, 1, k - 1)))

\* C39 amended: the same, for a q that does not end in a tab (the trim takes
\* such a tab off q alone, but it belongs to q's last term once a term follows).
C39_AddedTermNarrows ==
    \A k \in AddedTermAt :
        ~EndsInTab(SubSeq(picker.query, 1, k - 1)) =>
            IsSubsequence(picker.filtered_items,
                          filter_human(picker.items, SubSeq(picker.query, 1, k - 1)))

\* "b" had all five lines, "b -a" has one of them.
C39_Witness ==
    /\ picker.query = <<"b", " ", "-", "a">>
    /\ Len(picker.items) = 5
    /\ Len(filter_human(picker.items, <<"b">>)) = 5
    /\ Len(picker.filtered_items) = 1

====
